---- MODULE Spec2Model ----
(***************************************************************************)
(* The content queue of tg-latent-space-fm: the persisted queue file, the  *)
(* publish loop (bot.py) and the generate loop (bot.py,                    *)
(* content_generator.py) that share it as two asyncio tasks of one event   *)
(* loop.  A task runs without interruption between two awaits, so every    *)
(* action below is the code between two consecutive suspension points.     *)
(*                                                                         *)
(* A post is a record (a Python dict); the key "published" may be absent.  *)
(* The field uid is a history field: it names the post object (initial     *)
(* posts by their position, generated posts by their generation serial)    *)
(* and is read by no operation of the program.  A text is a sequence of    *)
(* one-character strings, so that str.strip() can be computed.             *)
(***************************************************************************)
EXTENDS Integers, Sequences, FiniteSets, TLC

\* ---------------------------------------------------------------- bounds
MaxInit == 2     \* posts in the queue file when the process starts
MaxGen == 2      \* posts the generator appends in one run
MaxLen == 3      \* length of the queues the pure functions are applied to
MaxPureId == 2   \* ids of the posts of those queues

VARIABLES
    file,        \* content of content_queue.json: a sequence of posts
    fileOk,      \* the file holds a complete JSON document (json.load does not raise)
    pubPc,       \* publish_loop: "off", "tick", "sending", "sleeping", "dead", "cancelled"
    pubQueue,    \* publish_loop's local queue (the snapshot it loaded)
    pubPost,     \* publish_loop's local post: its position in pubQueue, 0 for None
    pubSuccess,  \* publish_loop's local success: "unset", "ok" or "fail"
    sendCalls,   \* history: send_post calls made in the current publish tick
    genPc,       \* generate_loop: "off", "ready", "calling", "sleeping", "dead", "cancelled"
    genQueue,    \* generate_post's local queue (loaded before the API call)
    genText,     \* generate_and_queue's local text (what generate_post returned)
    genSuccess,  \* generate_loop's local success: "unset", "ok" or "fail"
    genCount,    \* history: number of posts appended by generate_and_queue
    delivered,   \* history: uid -> number of send_post calls that returned True
    assigned,    \* history: the ids generate_and_queue assigned, in order
    mainPc,      \* main: "start", "gather", "finally" or "exited"
    session,     \* bot.session: "none" (no Bot yet), "open" or "closed"
    hasConfig,   \* BOT_TOKEN and CHANNEL_ID are both set
    hasKey,      \* OPENROUTER_API_KEY is set
    error,       \* the first error that ended a task or main, "none" before
    svPc,        \* save_queue on its own: "idle", "call", "dumping", "done", "interrupted"
    svQueue,     \* save_queue's argument
    svOld,       \* history: the file's content when save_queue was called
    svBuf,       \* save_queue: posts json.dump has written to the file object
    pOp,         \* pure functions: the function applied, "none" before
    pIn,         \* pure functions: the queue passed in
    pId,         \* pure functions: the post_id passed to mark_published
    pQueue,      \* pure functions: the queue object after the call
    pOut         \* pure functions: the value returned (or the file written)

loopVars == <<pubPc, pubQueue, pubPost, pubSuccess, sendCalls, genPc, genQueue,
              genText, genSuccess, genCount, delivered, assigned>>
mainVars == <<mainPc, session, hasConfig, hasKey, error>>
saveVars == <<svPc, svQueue, svOld, svBuf>>
pureVars == <<pOp, pIn, pId, pQueue, pOut>>
sysVars == <<file, fileOk, loopVars, mainVars, saveVars>>
vars == <<file, fileOk, loopVars, mainVars, saveVars, pureVars>>

\* ------------------------------------------------------- Python values
\* dict.get(key, default)
Get(post, key, default) == IF key \in DOMAIN post THEN post[key] ELSE default

\* post[key] = value
SetItem(post, key, value) == (key :> value) @@ post

\* A value of type str | None.
NoneVal == [none |-> TRUE, s |-> <<>>]
Str(s) == [none |-> FALSE, s |-> s]

\* Python truth, mutated: only None is false (if text is None).
Truthy_notnone(v) == ~v.none

\* Python truth of a str | None: None and "" are false.
Truthy(v) == ~v.none /\ v.s # <<>>

Whitespace == {" ", "\n"}

RECURSIVE lstrip(_)
lstrip(s) == IF s # <<>> /\ Head(s) \in Whitespace THEN lstrip(Tail(s)) ELSE s

RECURSIVE rstrip(_)
rstrip(s) ==
    IF s # <<>> /\ s[Len(s)] \in Whitespace THEN rstrip(SubSeq(s, 1, Len(s) - 1)) ELSE s

\* str.strip()
strip(s) == rstrip(lstrip(s))

\* ------------------------------------------------------------ the queue
\* load_queue(): the file is read whole; a missing file reads as [].  Read
\* only when fileOk: json.load raises on anything else.
load_queue == file

\* get_next_post, mutated: a missing "published" key counts as published.
get_next_post_strict(queue) ==
    LET RECURSIVE scan(_)
        scan(i) == IF i > Len(queue) THEN 0
                   ELSE IF ~Get(queue[i], "published", TRUE) THEN i
                   ELSE scan(i + 1)
    IN scan(1)

\* get_next_post, mutated: the scan keeps the last unpublished post.
get_next_post_last(queue) ==
    LET RECURSIVE scan(_, _)
        scan(i, found) == IF i > Len(queue) THEN found
                          ELSE IF ~Get(queue[i], "published", FALSE) THEN scan(i + 1, i)
                          ELSE scan(i + 1, found)
    IN scan(1, 0)

\* get_next_post(queue): the first post, in list order, whose "published" is
\* false or missing; returned as its position in queue (the code returns the
\* dict object itself), 0 for None.
get_next_post(queue) ==
    LET RECURSIVE scan(_)
        scan(i) == IF i > Len(queue) THEN 0
                   ELSE IF ~Get(queue[i], "published", FALSE) THEN i
                   ELSE scan(i + 1)
    IN scan(1)

\* mark_published, mutated: no break, every post with the id is marked.
mark_published_all(queue, post_id) ==
    [i \in DOMAIN queue |->
        IF "id" \in DOMAIN queue[i] /\ queue[i]["id"] = post_id
        THEN SetItem(queue[i], "published", TRUE) ELSE queue[i]]

\* mark_published, mutated: the flag is never set, the queue is only saved.
mark_published_noflag(queue, post_id) == queue

\* mark_published(queue, post_id): the queue after the loop of lines 71-74,
\* which is what save_queue(queue) then writes: the first post whose id is
\* post_id gets published = True; no such post, no change.
mark_published(queue, post_id) ==
    LET RECURSIVE scan(_)
        scan(i) == IF i > Len(queue) THEN queue
                   ELSE IF "id" \in DOMAIN queue[i] /\ queue[i]["id"] = post_id
                        THEN [queue EXCEPT ![i] = SetItem(queue[i], "published", TRUE)]
                   ELSE scan(i + 1)
    IN scan(1)

\* get_next_id, mutated: the id is the length of the queue plus one.
get_next_id_len(queue) == Len(queue) + 1

\* get_next_id(queue)
get_next_id(queue) ==
    IF queue = <<>> THEN 1
    ELSE LET ids == {Get(queue[i], "id", 0) : i \in DOMAIN queue}
         IN (CHOOSE m \in ids : \A n \in ids : n <= m) + 1

\* generate_and_queue, mutated: the post is appended to the queue that
\* generate_post loaded before the API call.
generate_and_queue_load_stale == genQueue

\* generate_and_queue, line 127: queue = load_queue(), after the API call.
generate_and_queue_load == load_queue

\* new_post, mutated: the text is stored as generated.
new_post_nostrip(queue, text, uid) ==
    [uid |-> uid, id |-> get_next_id(queue), title |-> "Generated",
     text |-> text, published |-> FALSE]

\* generate_and_queue, lines 128-133: the dict new_post.
new_post(queue, text, uid) ==
    [uid |-> uid, id |-> get_next_id(queue), title |-> "Generated",
     text |-> strip(text), published |-> FALSE]

\* send_post, mutated: the exception of bot.send_message is not caught.
send_post_propagates(outcome) == IF outcome = "sent" THEN "ok" ELSE "raise"

\* send_post: True when bot.send_message returned, False when it raised.
send_post(outcome) == IF outcome = "sent" THEN "ok" ELSE "fail"

\* main, mutated: the generator is started whatever the key.
GeneratorStarts_always(key) == TRUE

\* main, line 157: if openrouter_key
GeneratorStarts(key) == key

\* publish_loop, mutated: the queue is marked whatever send_post returned.
ShouldMark_always(success) == TRUE

\* publish_loop, line 105: if success
ShouldMark(success) == success = "ok"

\* ------------------------------------------------------- collaborators
\* What chat.completions.create can do: raise, or return a message whose
\* content is None or a string.
Texts == {<<>>, <<" ">>, <<" ", "a", "\n">>}
Completions ==
    {[raised |-> TRUE, content |-> NoneVal]}
    \cup {[raised |-> FALSE, content |-> v] : v \in {NoneVal} \cup {Str(s) : s \in Texts}}

\* generate_post, lines 101-114: the content, None when the call raised.
generate_post(completion) == IF completion.raised THEN NoneVal ELSE completion.content

\* ------------------------------------------------------- initial state
UIDs == 1..(MaxInit + MaxGen)
Flags == {"true", "false", "absent"}

\* A post of a queue file written by hand: published may be missing.
FilePost(uid, id, flag) ==
    LET base == [uid |-> uid, id |-> id, title |-> "Seed", text |-> <<"a">>]
    IN IF flag = "absent" THEN base ELSE SetItem(base, "published", flag = "true")

\* The queue files the process may find: up to MaxInit posts, distinct ids.
InitQueues ==
    UNION {{[i \in 1..n |-> FilePost(i, ids[i], flags[i])] :
                ids \in {f \in [1..n -> 1..MaxInit] : \A a, b \in 1..n : a # b => f[a] # f[b]},
                flags \in [1..n -> Flags]} : n \in 0..MaxInit}

PureIdle == pOp = "none" /\ pIn = <<>> /\ pId = 0 /\ pQueue = <<>> /\ pOut = 0

SaveIdle == svPc = "idle" /\ svQueue = <<>> /\ svOld = <<>> /\ svBuf = 0

\* The locals of the two loops before their first statement.
LoopsFresh ==
    /\ pubQueue = <<>> /\ pubPost = 0 /\ pubSuccess = "unset" /\ sendCalls = 0
    /\ genQueue = <<>> /\ genText = NoneVal /\ genSuccess = "unset"
    /\ genCount = 0
    /\ delivered = [u \in UIDs |-> 0]
    /\ assigned = <<>>

\* main has reached asyncio.gather with both loops: the configuration and
\* the key are set and the queue file was loaded at line 148.
Init ==
    /\ file \in InitQueues /\ fileOk = TRUE
    /\ pubPc = "tick" /\ genPc = "ready"
    /\ LoopsFresh
    /\ mainPc = "gather" /\ session = "open"
    /\ hasConfig = TRUE /\ hasKey = TRUE /\ error = "none"
    /\ SaveIdle
    /\ PureIdle

\* A task runs while main awaits gather, and on while main awaits
\* bot.session.close() when it was the other task that raised.
Running == mainPc \in {"gather", "finally"}

\* An exception ends a task; the first one is the one gather raises.
Raise(cause) == error' = IF error = "none" THEN cause ELSE error

\* ------------------------------------------------------- publish_loop
\* Lines 94-100 and 102-103 up to the await: load, select, idle or send.
\* json.load raises on a malformed file and the exception leaves the loop.
PubTick ==
    /\ Running
    /\ pubPc = "tick"
    /\ IF ~fileOk
       THEN /\ pubPc' = "dead"
            /\ Raise("storage")
            /\ UNCHANGED <<pubQueue, pubPost, sendCalls>>
       ELSE /\ pubQueue' = load_queue
            /\ pubPost' = get_next_post(load_queue)
            /\ pubPc' = IF get_next_post(load_queue) = 0 THEN "sleeping" ELSE "sending"
            /\ sendCalls' = IF get_next_post(load_queue) = 0 THEN 0 ELSE 1
            /\ UNCHANGED error
    /\ UNCHANGED <<file, fileOk, pubSuccess, genPc, genQueue, genText, genSuccess,
                   genCount, delivered, assigned, mainPc, session, hasConfig, hasKey,
                   saveVars, pureVars>>

\* Lines 103-109: send_post returns (True, or False after an exception);
\* on success mark_published mutates the local queue and saves it.
PubSendReturn(success) ==
    /\ Running
    /\ pubPc = "sending"
    /\ IF success = "raise"
       THEN /\ pubPc' = "dead"
            /\ Raise("delivery")
            /\ UNCHANGED <<pubSuccess, delivered, pubQueue, file, fileOk>>
       ELSE /\ pubSuccess' = success
            /\ LET post == pubQueue[pubPost] IN
               /\ delivered' = IF success = "ok"
                               THEN [delivered EXCEPT ![post.uid] = @ + 1] ELSE delivered
               /\ IF ShouldMark(success)
                  THEN /\ pubQueue' = mark_published(pubQueue, post["id"])
                       /\ file' = mark_published(pubQueue, post["id"])
                       /\ fileOk' = TRUE
                  ELSE UNCHANGED <<pubQueue, file, fileOk>>
            /\ pubPc' = "sleeping"
            /\ UNCHANGED error
    /\ UNCHANGED <<pubPost, sendCalls, genPc, genQueue, genText, genSuccess, genCount,
                   assigned, mainPc, session, hasConfig, hasKey, saveVars, pureVars>>

\* Lines 99 and 109: asyncio.sleep(INTERVAL_SECONDS) is over.
PubWake ==
    /\ Running
    /\ pubPc = "sleeping"
    /\ pubPc' = "tick"
    /\ UNCHANGED <<file, fileOk, pubQueue, pubPost, pubSuccess, sendCalls, genPc,
                   genQueue, genText, genSuccess, genCount, delivered, assigned,
                   mainVars, saveVars, pureVars>>

\* ------------------------------------------------------ generate_loop
\* generate_and_queue calls generate_post, which loads the queue for its
\* prompt (lines 93-99, outside the try) and awaits the API call.
GenCall ==
    /\ Running
    /\ genPc = "ready"
    /\ genCount < MaxGen
    /\ IF ~fileOk
       THEN /\ genPc' = "dead"
            /\ Raise("storage")
            /\ UNCHANGED genQueue
       ELSE /\ genQueue' = load_queue
            /\ genPc' = "calling"
            /\ UNCHANGED error
    /\ UNCHANGED <<file, fileOk, pubPc, pubQueue, pubPost, pubSuccess, sendCalls,
                   genText, genSuccess, genCount, delivered, assigned, mainPc, session,
                   hasConfig, hasKey, saveVars, pureVars>>

\* The API call is over: content_generator.py lines 111-114 and 123-137,
\* and the assignment of the result in generate_loop (bot.py 123, 132).
GenReturn(completion) ==
    /\ Running
    /\ genPc = "calling"
    /\ genText' = generate_post(completion)
    /\ IF ~Truthy(generate_post(completion))
       THEN /\ genSuccess' = "fail"
            /\ genPc' = "sleeping"
            /\ UNCHANGED <<file, fileOk, genCount, assigned, error>>
       ELSE IF ~fileOk
       THEN /\ genPc' = "dead"
            /\ Raise("storage")
            /\ UNCHANGED <<file, fileOk, genCount, assigned, genSuccess>>
       ELSE LET queue == generate_and_queue_load
                post == new_post(queue, generate_post(completion).s,
                                 MaxInit + genCount + 1)
            IN /\ file' = Append(queue, post)
               /\ fileOk' = TRUE
               /\ genCount' = genCount + 1
               /\ assigned' = Append(assigned, post["id"])
               /\ genSuccess' = "ok"
               /\ genPc' = "sleeping"
               /\ UNCHANGED error
    /\ UNCHANGED <<pubPc, pubQueue, pubPost, pubSuccess, sendCalls, genQueue, delivered,
                   mainPc, session, hasConfig, hasKey, saveVars, pureVars>>

\* bot.py line 130: asyncio.sleep(interval_seconds) is over.
GenWake ==
    /\ Running
    /\ genPc = "sleeping"
    /\ genPc' = "ready"
    /\ UNCHANGED <<file, fileOk, pubPc, pubQueue, pubPost, pubSuccess, sendCalls,
                   genQueue, genText, genSuccess, genCount, delivered, assigned,
                   mainVars, saveVars, pureVars>>

SendOutcomes == {"sent", "raised"}

Next ==
    \/ PubTick
    \/ \E outcome \in SendOutcomes : PubSendReturn(send_post(outcome))
    \/ PubWake
    \/ GenCall
    \/ \E completion \in Completions : GenReturn(completion)
    \/ GenWake

Spec == Init /\ [][Next]_vars

\* The same, with the scheduling the event loop gives: a task that can
\* run does run, every call returns, and a delivery tried again and again
\* succeeds in the end.
Fairness ==
    /\ WF_vars(PubTick) /\ WF_vars(PubWake)
    /\ WF_vars(\E outcome \in SendOutcomes : PubSendReturn(send_post(outcome)))
    /\ SF_vars(PubSendReturn(send_post("sent")))
    /\ WF_vars(GenCall) /\ WF_vars(GenWake)
    /\ WF_vars(\E completion \in Completions : GenReturn(completion))

SpecLive == Init /\ [][Next]_vars /\ Fairness

\* ---------------------------------------------------------------- main
\* The queue files of the runs of main: at most one post.
MainQueues == {q \in InitQueues : Len(q) <= 1}

\* The process starts: any configuration, any queue file, malformed or not.
MainInit ==
    /\ file \in MainQueues /\ fileOk \in BOOLEAN
    /\ pubPc = "off" /\ genPc = "off"
    /\ LoopsFresh
    /\ mainPc = "start" /\ session = "none"
    /\ hasConfig \in BOOLEAN /\ hasKey \in BOOLEAN /\ error = "none"
    /\ SaveIdle
    /\ PureIdle

\* main, lines 138-166, up to the await of gather: return 1 without the
\* required settings; Bot(token) and then load_queue(), outside the try;
\* the publish loop and, with a key, the generate loop.
MainStart ==
    /\ mainPc = "start"
    /\ IF ~hasConfig
       THEN /\ mainPc' = "exited"
            /\ Raise("config")
            /\ UNCHANGED <<session, pubPc, genPc>>
       ELSE IF ~fileOk
       THEN /\ session' = "open"
            /\ mainPc' = "exited"
            /\ Raise("storage")
            /\ UNCHANGED <<pubPc, genPc>>
       ELSE /\ session' = "open"
            /\ mainPc' = "gather"
            /\ pubPc' = "tick"
            /\ genPc' = IF GeneratorStarts(hasKey) THEN "ready" ELSE "off"
            /\ UNCHANGED error
    /\ UNCHANGED <<file, fileOk, pubQueue, pubPost, pubSuccess, sendCalls, genQueue,
                   genText, genSuccess, genCount, delivered, assigned, hasConfig,
                   hasKey, saveVars, pureVars>>

\* A task that has not ended is cancelled.
Cancelled(pc) == IF pc \in {"off", "dead"} THEN pc ELSE "cancelled"

\* The external interrupt while main awaits gather (lines 165-166): the
\* main task is cancelled, gather cancels both loops, the finally runs.
MainInterrupt ==
    /\ mainPc = "gather"
    /\ mainPc' = "finally"
    /\ pubPc' = Cancelled(pubPc)
    /\ genPc' = Cancelled(genPc)
    /\ Raise("interrupt")
    /\ UNCHANGED <<file, fileOk, pubQueue, pubPost, pubSuccess, sendCalls, genQueue,
                   genText, genSuccess, genCount, delivered, assigned, session,
                   hasConfig, hasKey, saveVars, pureVars>>

\* gather raises the exception of a loop that ended (line 166); the other
\* loop is not cancelled by gather.
MainGatherRaises ==
    /\ mainPc = "gather"
    /\ pubPc = "dead" \/ genPc = "dead"
    /\ mainPc' = "finally"
    /\ UNCHANGED <<file, fileOk, loopVars, session, hasConfig, hasKey, error,
                   saveVars, pureVars>>

\* finally: await bot.session.close() (lines 167-168); the exception goes
\* on to asyncio.run, which cancels what still runs.
MainClose ==
    /\ mainPc = "finally"
    /\ session' = "closed"
    /\ mainPc' = "exited"
    /\ pubPc' = Cancelled(pubPc)
    /\ genPc' = Cancelled(genPc)
    /\ UNCHANGED <<file, fileOk, pubQueue, pubPost, pubSuccess, sendCalls, genQueue,
                   genText, genSuccess, genCount, delivered, assigned, hasConfig,
                   hasKey, error, saveVars, pureVars>>

\* The queue file is edited by hand while the bot runs and left malformed.
ExternalCorrupt ==
    /\ mainPc = "gather"
    /\ fileOk
    /\ fileOk' = FALSE
    /\ UNCHANGED <<file, loopVars, mainVars, saveVars, pureVars>>

MainNext ==
    \/ MainStart
    \/ MainInterrupt
    \/ MainGatherRaises
    \/ MainClose
    \/ ExternalCorrupt
    \/ PubTick
    \/ \E outcome \in SendOutcomes : PubSendReturn(send_post(outcome))
    \/ PubWake
    \/ GenCall
    \/ \E completion \in Completions : GenReturn(completion)
    \/ GenWake

SpecMain == MainInit /\ [][MainNext]_vars

\* --------------------------------------------------- save_queue, by steps
\* In the actions above save_queue is one step: nothing else of the event
\* loop runs during it.  Here it is the three statements of lines 58-60,
\* with the interrupt that can land between them.
SaveInit ==
    /\ file \in {q \in InitQueues : Len(q) <= 1} /\ fileOk = TRUE
    /\ pubPc = "off" /\ genPc = "off"
    /\ LoopsFresh
    /\ mainPc = "gather" /\ session = "open"
    /\ hasConfig = TRUE /\ hasKey = TRUE /\ error = "none"
    /\ svPc = "call" /\ svQueue \in InitQueues /\ svOld = file /\ svBuf = 0
    /\ PureIdle

\* open(QUEUE_FILE, "w"): the file is truncated to zero bytes.
SaveOpen ==
    /\ svPc = "call"
    /\ file' = <<>> /\ fileOk' = FALSE
    /\ svPc' = "dumping"
    /\ UNCHANGED <<svQueue, svOld, svBuf, loopVars, mainVars, pureVars>>

\* json.dump writes the next post to the file object; how much of what was
\* written has reached the file is up to the buffer.
SaveDump ==
    /\ svPc = "dumping"
    /\ svBuf < Len(svQueue)
    /\ svBuf' = svBuf + 1
    /\ \E k \in Len(file)..(svBuf + 1) : file' = SubSeq(svQueue, 1, k)
    /\ fileOk' = FALSE
    /\ UNCHANGED <<svPc, svQueue, svOld, loopVars, mainVars, pureVars>>

\* The closing bracket is written and the with block closes the file.
SaveClose ==
    /\ svPc = "dumping"
    /\ svBuf = Len(svQueue)
    /\ file' = svQueue /\ fileOk' = TRUE
    /\ svPc' = "done"
    /\ UNCHANGED <<svQueue, svOld, svBuf, loopVars, mainVars, pureVars>>

\* The interrupt lands inside the with block: the file is closed with what
\* was written so far.
SaveInterrupt ==
    /\ svPc = "dumping"
    /\ file' = SubSeq(svQueue, 1, svBuf) /\ fileOk' = FALSE
    /\ svPc' = "interrupted"
    /\ UNCHANGED <<svQueue, svOld, svBuf, loopVars, mainVars, pureVars>>

SaveNext ==
    \/ SaveOpen
    \/ SaveDump
    \/ SaveClose
    \/ SaveInterrupt

SpecSave == SaveInit /\ [][SaveNext]_vars

\* ------------------------------------------- the functions on their own
PurePosts ==
    {FilePost(0, id, flag) : id \in 1..MaxPureId, flag \in Flags}

PureQueues == UNION {[1..n -> PurePosts] : n \in 0..MaxLen}

PureInit ==
    /\ file = <<>> /\ fileOk = TRUE
    /\ pubPc = "off" /\ genPc = "off"
    /\ LoopsFresh
    /\ mainPc = "gather" /\ session = "open"
    /\ hasConfig = TRUE /\ hasKey = TRUE /\ error = "none"
    /\ SaveIdle
    /\ pOp = "none"
    /\ pIn \in PureQueues
    /\ pId \in 1..(MaxPureId + 1)
    /\ pQueue = pIn
    /\ pOut = 0

ApplyGetNextPost ==
    /\ pOp = "none"
    /\ pOp' = "get_next_post"
    /\ pOut' = get_next_post(pQueue)
    /\ UNCHANGED <<pIn, pId, pQueue, sysVars>>

ApplyGetNextId ==
    /\ pOp = "none"
    /\ pOp' = "get_next_id"
    /\ pOut' = get_next_id(pQueue)
    /\ UNCHANGED <<pIn, pId, pQueue, sysVars>>

\* mark_published(queue, post_id): the list is mutated in place and saved.
ApplyMarkPublished ==
    /\ pOp = "none"
    /\ pOp' = "mark_published"
    /\ pQueue' = mark_published(pQueue, pId)
    /\ file' = mark_published(pQueue, pId)
    /\ UNCHANGED <<pIn, pId, pOut, fileOk, loopVars, mainVars, saveVars>>

PureNext ==
    \/ ApplyGetNextPost
    \/ ApplyGetNextId
    \/ ApplyMarkPublished

SpecPure == PureInit /\ [][PureNext]_vars

\* ------------------------------------------------------------- claims
\* The post's flag reads as published (a missing flag reads as unpublished).
IsPublished(post) == "published" \in DOMAIN post /\ post["published"] = TRUE

\* The post object uid is in the queue / is in the queue and published.
InQueue(queue, uid) == \E i \in DOMAIN queue : queue[i].uid = uid
PublishedIn(queue, uid) ==
    \E i \in DOMAIN queue : queue[i].uid = uid /\ IsPublished(queue[i])

\* The step is the end of a publish tick whose send_post returned success.
PubSuccessStep == pubPc = "sending" /\ pubPc' = "sleeping" /\ pubSuccess' = "ok"
PubFailStep == pubPc = "sending" /\ pubPc' = "sleeping" /\ pubSuccess' = "fail"

\* The step is generate_and_queue appending a post.
GenAppendStep == genPc = "calling" /\ genCount' = genCount + 1

\* C1: when the publisher marks a post published after the generator has
\* appended a post during send_post (the post is in the file and not in the
\* publisher's snapshot), the file written holds the published flag of the
\* delivered post and still holds the appended post.
C1_BothSurvive ==
    [][PubSuccessStep =>
          /\ PublishedIn(file', pubQueue[pubPost].uid)
          /\ \A i \in DOMAIN file :
                ~InQueue(pubQueue, file[i].uid) => InQueue(file', file[i].uid)]_vars

\* C2: no post is delivered with success more than once, under any
\* interleaving of publish ticks and generate_and_queue calls.
C2_AtMostOnce == \A u \in UIDs : delivered[u] <= 1

\* C2 witness: a post has been delivered and a later tick is sending another.
C2_Witness ==
    /\ pubPc = "sending"
    /\ \E u \in UIDs : delivered[u] = 1 /\ InQueue(pubQueue, u)
                       /\ pubQueue[pubPost].uid # u

\* C3: a post persisted as published is present and published in every
\* later content of the file.
C3_FlagNeverReverts ==
    [][\A i \in DOMAIN file :
          IsPublished(file[i]) => PublishedIn(file', file[i].uid)]_vars

\* C3 witness: a generated post is published in the file, and both a
\* generator append and a publisher write followed its publication.
C3_Witness ==
    /\ \E u \in UIDs : u > MaxInit /\ delivered[u] = 1 /\ PublishedIn(file, u)
    /\ Cardinality({u \in UIDs : delivered[u] = 1}) >= 2
    /\ genCount = MaxGen

\* C4: a flag that is published in the file and was not before the step
\* was set by the end of a publish tick whose send_post, for that very
\* post, returned success.
C4_OnlyAfterDelivery ==
    [][\A j \in DOMAIN file' :
          (IsPublished(file'[j]) /\ ~PublishedIn(file, file'[j].uid)) =>
              (PubSuccessStep /\ pubQueue[pubPost].uid = file'[j].uid)]_vars

\* C4 witness: a tick has ended in success, its post is published in the
\* file, and the generator has appended posts as well.
C4_Witness ==
    /\ pubPc = "sleeping" /\ pubSuccess = "ok"
    /\ PublishedIn(file, pubQueue[pubPost].uid)
    /\ genCount > 0

\* C5: a publish tick whose delivery failed writes nothing to the file,
\* and the next publish tick selects the same post, whatever the generator
\* appended in between.
C5_FailedDeliveryRetried ==
    [][/\ PubFailStep => file' = file
       /\ (pubPc = "tick" /\ pubPc' # "tick" /\ pubSuccess = "fail") =>
             /\ pubPc' = "sending"
             /\ pubQueue'[pubPost'].uid = pubQueue[pubPost].uid]_vars

\* C5 witness: a tick has failed, the generator has appended since that
\* tick loaded the queue, and the next tick is about to select.
C5_Witness ==
    /\ pubPc = "tick" /\ pubSuccess = "fail"
    /\ Len(file) > Len(pubQueue)
    /\ ~PublishedIn(file, pubQueue[pubPost].uid)

\* C6: no two posts appended by generate_and_queue get the same id.
C6_IdsNeverReused ==
    \A i, j \in DOMAIN assigned : i # j => assigned[i] # assigned[j]

\* C7: while a delivery is in flight, every post before the post being
\* delivered in the persisted queue is published.
C7_InsertionOrder ==
    pubPc = "sending" =>
        \E k \in DOMAIN file :
            /\ file[k].uid = pubQueue[pubPost].uid
            /\ \A i \in 1..(k - 1) : IsPublished(file[i])

\* C7 witness: the post being delivered is not the first of the queue and
\* unpublished posts wait behind it, one of them appended during the send.
C7_Witness ==
    /\ pubPc = "sending" /\ pubPost > 1
    /\ Len(file) > Len(pubQueue)
    /\ \E i \in DOMAIN pubQueue : i > pubPost /\ ~IsPublished(pubQueue[i])

\* C8: get_next_post returns the smallest position whose flag is false or
\* missing, None exactly when there is none, and leaves the queue as it was.
C8_GetNextPost ==
    pOp = "get_next_post" =>
        LET unpublished == {i \in DOMAIN pIn : ~IsPublished(pIn[i])}
        IN /\ (unpublished = {}) <=> (pOut = 0)
           /\ unpublished # {} =>
                 (pOut \in unpublished /\ \A i \in unpublished : pOut <= i)
           /\ pQueue = pIn

\* C8 witness: the post returned has no flag and follows a published one.
C8_Witness ==
    /\ pOp = "get_next_post" /\ pOut = 2
    /\ "published" \notin DOMAIN pIn[2]
    /\ Len(pIn) = 3

\* C9: get_next_id is 1 for the empty queue and otherwise the greatest id
\* of the queue plus one.
C9_GetNextId ==
    pOp = "get_next_id" =>
        IF pIn = <<>> THEN pOut = 1
        ELSE /\ \E i \in DOMAIN pIn : pOut = pIn[i]["id"] + 1
             /\ \A i \in DOMAIN pIn : pIn[i]["id"] < pOut

\* C9 witness: the greatest id is not the last post's and differs from the
\* length of the queue.
C9_Witness ==
    /\ pOp = "get_next_id" /\ Len(pIn) = 3
    /\ pIn[1]["id"] = 1 /\ pIn[2]["id"] = 1 /\ pIn[3]["id"] = 1
    /\ pOut = 2

\* The text is the generated text without its leading and trailing
\* whitespace.
IsTrimOf(text, generated) ==
    /\ text = <<>> \/ (text[1] \notin Whitespace /\ text[Len(text)] \notin Whitespace)
    /\ \E a \in 0..Len(generated) :
          /\ a + Len(text) <= Len(generated)
          /\ \A i \in 1..Len(generated) :
                IF i > a /\ i <= a + Len(text) THEN generated[i] = text[i - a]
                ELSE generated[i] \in Whitespace

\* C10: a successful generate_and_queue leaves the file as it was, followed
\* by one new post: unpublished, titled "Generated", the generated text
\* trimmed, and an id that no post of the earlier file has.
C10_AppendRoundTrip ==
    [][GenAppendStep =>
          /\ Len(file') = Len(file) + 1
          /\ SubSeq(file', 1, Len(file)) = file
          /\ LET post == file'[Len(file')]
             IN /\ post["published"] = FALSE
                /\ post["title"] = "Generated"
                /\ IsTrimOf(post["text"], genText'.s)
                /\ \A i \in DOMAIN file : file[i]["id"] # post["id"]]_vars

\* C10 witness: a post whose generated text had whitespace around it is at
\* the tail of a file that held posts before.
C10_Witness ==
    /\ genPc = "sleeping" /\ genText = Str(<<" ", "a", "\n">>)
    /\ Len(file) >= 2
    /\ file[Len(file)].uid = MaxInit + genCount
    /\ file[Len(file)]["text"] = <<"a">>

\* The value generate_post returned is a failed generation: None (the call
\* raised, or the content was None) or the empty string.
GenerationFailed(v) == v.none \/ v.s = <<>>

\* The step is the return of the API call into generate_and_queue.
GenReturnStep == genPc = "calling" /\ genPc' \notin {"calling", "cancelled"}

\* C11: when the generation fails (an error, None or an empty string),
\* generate_and_queue returns False and the file is after the attempt what
\* it was before.
C11_FailedGenerationWritesNothing ==
    [][(GenReturnStep /\ GenerationFailed(genText')) =>
          (genSuccess' = "fail" /\ file' = file /\ fileOk' = fileOk)]_vars

\* C11 witness: an attempt has returned the empty string, with posts in
\* the file, and generate_and_queue has returned False.
C11_Witness ==
    /\ genPc = "sleeping" /\ genSuccess = "fail"
    /\ genText = Str(<<>>)
    /\ Len(file) > 0

\* C12: every post of the file has a text that is not empty after
\* trimming, whatever the generative collaborator returned.
C12_TextNonEmpty ==
    \A i \in DOMAIN file :
        \E k \in DOMAIN file[i]["text"] : file[i]["text"][k] \notin Whitespace

\* C13: at every instant of a save_queue the file holds the complete
\* previous snapshot or the complete new one.
C13_SaveAtomic ==
    svPc # "idle" => (fileOk /\ (file = svOld \/ file = svQueue))

\* C14: when main has exited after the Bot was created, the session of the
\* Bot is closed.
C14_SessionClosedOnExit ==
    (mainPc = "exited" /\ session # "none") => session = "closed"

\* The step is the return of a send_post that did not deliver.
SendFailedStep ==
    pubPc = "sending" /\ pubPc' \notin {"sending", "cancelled"} /\ delivered' = delivered

\* C15: a failed delivery and a failed generation leave their loop running
\* (asleep until its next tick); a loop ends by itself only on a malformed
\* queue file, and main exits only for missing settings, a malformed queue
\* file or the external interrupt.
C15_FailuresDoNotEndLoops ==
    [][/\ SendFailedStep => (pubPc' = "sleeping" /\ mainPc' = mainPc)
       /\ (GenReturnStep /\ GenerationFailed(genText')) =>
             (genPc' = "sleeping" /\ mainPc' = mainPc)
       /\ (pubPc' = "dead" /\ pubPc # "dead") => ~fileOk
       /\ (genPc' = "dead" /\ genPc # "dead") => ~fileOk
       /\ (mainPc' = "exited" /\ mainPc # "exited") =>
             error' \in {"config", "storage", "interrupt"}]_vars

\* C15 witness: after a failed delivery and a failed generation both loops
\* are in a later tick.
C15_Witness ==
    /\ mainPc = "gather"
    /\ pubSuccess = "fail" /\ pubPc = "sending"
    /\ genSuccess = "fail" /\ genPc = "calling"
    /\ error = "none"

\* C16: a publish tick calls send_post at most once, for the first
\* unpublished post of the queue it loaded; a tick that finds the queue
\* empty or fully published calls nothing, and the publisher writes the
\* file only at the end of a tick that sent.
C16_OneDeliveryPerTick ==
    [][/\ (pubPc = "tick" /\ pubPc' # "tick") =>
             LET unpublished == {i \in DOMAIN file : ~IsPublished(file[i])}
             IN IF unpublished = {}
                THEN pubPc' = "sleeping" /\ sendCalls' = 0 /\ file' = file
                ELSE /\ pubPc' = "sending" /\ sendCalls' = 1
                     /\ pubQueue' = file
                     /\ pubPost' \in unpublished
                     /\ \A i \in unpublished : pubPost' <= i
       /\ pubPc # "tick" => sendCalls' = sendCalls
       /\ file' # file => (GenAppendStep \/ (PubSuccessStep /\ sendCalls = 1))]_vars

\* C16 witness: a tick has found a queue whose posts are all published
\* and sleeps without having sent.
C16_Witness ==
    /\ pubPc = "sleeping" /\ sendCalls = 0 /\ pubPost = 0
    /\ Len(pubQueue) > 0
    /\ \E u \in UIDs : delivered[u] = 1

\* The post is the other one with published set to True.
IsMarked(post, other) ==
    /\ DOMAIN post = DOMAIN other \cup {"published"}
    /\ post["published"] = TRUE
    /\ \A key \in DOMAIN other \ {"published"} : post[key] = other[key]

\* C17: mark_published sets published on the (first) post with the id and
\* changes no other post, no other field, no order and no length; with
\* no such post the queue is unchanged; the queue is written either way.
C17_MarkPublishedFrame ==
    pOp = "mark_published" =>
        LET matches == {i \in DOMAIN pIn : pIn[i]["id"] = pId}
        IN /\ file = pQueue
           /\ Len(pQueue) = Len(pIn)
           /\ \A i \in DOMAIN pIn :
                 IF i \in matches /\ \A j \in matches : i <= j
                 THEN IsMarked(pQueue[i], pIn[i])
                 ELSE pQueue[i] = pIn[i]
           /\ matches = {} => pQueue = pIn

\* C17 witness: the post marked had no flag, and a post before it and one
\* after it are left as they were.
C17_Witness ==
    /\ pOp = "mark_published" /\ Len(pIn) = 3
    /\ pIn[1]["id"] # pId /\ pIn[2]["id"] = pId /\ pIn[3]["id"] = pId
    /\ "published" \notin DOMAIN pIn[2]
    /\ ~IsPublished(pQueue[3])

\* C18: without a generation key the generator never starts and nothing is
\* appended to the file, while the publisher selects, delivers and marks
\* the first unpublished post.
C18_NoKeyNoGenerator ==
    [][~hasKey =>
          /\ genPc' = "off" /\ genCount' = 0 /\ assigned' = <<>>
          /\ Len(file') = Len(file)
          /\ (pubPc = "tick" /\ pubPc' = "sending") =>
                (pubPost' = 1 \/ IsPublished(file[1]))
          /\ PubSuccessStep => PublishedIn(file', pubQueue[pubPost].uid)]_vars

\* C18 witness: without a key, the publisher has delivered the post of the
\* file and marked it.
C18_Witness ==
    /\ ~hasKey /\ mainPc = "gather"
    /\ pubPc = "sleeping" /\ pubSuccess = "ok"
    /\ delivered[1] = 1 /\ PublishedIn(file, 1)

\* C19: every post the generator has appended to the file is eventually
\* published in the file.
C19_AppendedEventuallyPublished ==
    \A u \in UIDs : (u > MaxInit /\ InQueue(file, u)) ~> PublishedIn(file, u)

\* C20: the ids of the posts of the file are pairwise distinct.
C20_FileIdsDistinct ==
    \A i, j \in DOMAIN file : i # j => file[i]["id"] # file[j]["id"]

\* C20 witness: an id has been assigned twice (the first post that had it
\* was lost) and the file holds several posts.
C20_Witness ==
    /\ \E i, j \in DOMAIN assigned : i # j /\ assigned[i] = assigned[j]
    /\ Len(file) >= 2
====
